---- MODULE Spec2Model ----
(***************************************************************************)
(* State-machine model of the SharePic / instabook API server              *)
(* (src/index.js): start-up provisioning of the Cosmos containers, and the *)
(* seven request handlers over the photos, comments and ratings            *)
(* containers and the blob container.                                      *)
(*                                                                         *)
(* Every handler is an async function: it runs synchronously up to its     *)
(* first await, and each awaited store call completes (or fails) in a      *)
(* later step, so handlers of different requests interleave at the awaits. *)
(*                                                                         *)
(* Representation                                                          *)
(*   - a JS string is a sequence of one-character strings;                 *)
(*   - a JS value of a request body is a record [t, s, h]: t is the type   *)
(*     tag, s the characters of a string, h the value of a number counted  *)
(*     in halves (h = 5 is 2.5), so that non-integer ratings are there;    *)
(*   - uuidv4() is a fresh number taken from nextId;                       *)
(*   - new Date().toISOString() is the value of clock, which Tick advances;*)
(*   - a container is the set of its documents (their ids are unique).     *)
(***************************************************************************)
EXTENDS Integers, Sequences, FiniteSets, Bags, TLC

\* Bounds of the model.
MaxInFlight == 2
MaxClock == 1
MaxId == 3

VARIABLES
  cosmosClient,        \* index.js:71  TRUE iff COSMOS_ENDPOINT and COSMOS_KEY are set
  blobServiceClient,   \* index.js:67  TRUE iff a storage connection string is set
  phase,               \* position of the start-up chain index.js:356-368
  photosContainer,     \* index.js:75  TRUE once the handle is assigned
  commentsContainer,   \* index.js:76
  ratingsContainer,    \* index.js:77
  startupCalls,        \* createIfNotExists calls issued by initCosmos, in order
  handlerCalls,        \* createIfNotExists calls issued by request handlers
  blobContainerExists, \* the blob container has been created
  photos,              \* documents of the photos container
  comments,            \* documents of the comments container
  ratings,             \* documents of the ratings container
  blobs,               \* blobs of the blob container
  blobFate,            \* history: blob url -> what became of the request that wrote it
  nextId,              \* next value uuidv4() returns
  clock,               \* current instant
  inflight,            \* bag of the requests suspended at an await
  last                 \* the response the latest step sent, with its request

vars == <<cosmosClient, blobServiceClient, phase, photosContainer, commentsContainer,
          ratingsContainer, startupCalls, handlerCalls, blobContainerExists,
          photos, comments, ratings, blobs, blobFate,
          nextId, clock, inflight, last>>

handles == <<photosContainer, commentsContainer, ratingsContainer>>
config == <<cosmosClient, blobServiceClient>>
provisioning == <<startupCalls, handlerCalls, blobContainerExists>>
photoStore == <<photos, blobs, blobFate>>

-----------------------------------------------------------------------------
\* JS values and strings

Undef == [t |-> "undefined", s |-> <<>>, h |-> 0]
Str(s) == [t |-> "string", s |-> s, h |-> 0]
Num(h) == [t |-> "number", s |-> <<>>, h |-> h]

\* JS truthiness: undefined, "" and 0 are falsy.
Truthy(v) ==
  CASE v.t = "undefined" -> FALSE
    [] v.t = "string" -> v.s # <<>>
    [] v.t = "number" -> v.h # 0

\* (v || dflt)
OrElse(v, dflt) == IF Truthy(v) THEN v ELSE Str(dflt)

IsSpace(c) == c = " "

RECURSIVE TrimStart(_)
TrimStart(s) ==
  IF s = <<>> THEN s
  ELSE IF IsSpace(Head(s)) THEN TrimStart(Tail(s)) ELSE s

RECURSIVE TrimEnd(_)
TrimEnd(s) ==
  IF s = <<>> THEN s
  ELSE IF IsSpace(s[Len(s)]) THEN TrimEnd(SubSeq(s, 1, Len(s) - 1)) ELSE s

\* String.prototype.trim
Trim(s) == TrimEnd(TrimStart(s))

LowerChar(c) ==
  CASE c = "A" -> "a"
    [] c = "B" -> "b"
    [] c = "U" -> "u"
    [] OTHER -> c

\* String.prototype.toLowerCase, and LOWER() of the query language
ToLowerCase(s) == [i \in 1..Len(s) |-> LowerChar(s[i])]

\* String.prototype.includes, and CONTAINS() of the query language
Includes(s, sub) ==
  \E i \in 0..(Len(s) - Len(sub)) : SubSeq(s, i + 1, i + Len(sub)) = sub

\* String.prototype.split(sep) for a one-character separator
RECURSIVE SplitFrom(_, _, _)
SplitFrom(s, sep, cur) ==
  IF s = <<>> THEN <<cur>>
  ELSE IF Head(s) = sep THEN <<cur>> \o SplitFrom(Tail(s), sep, <<>>)
  ELSE SplitFrom(Tail(s), sep, Append(cur, Head(s)))

Split(s, sep) == SplitFrom(s, sep, <<>>)

\* (x || dflt).trim(): a TypeError when the value is truthy and not a string
TrimThrows(v) == Truthy(v) /\ v.t # "string"
TrimOr(v, dflt) == Trim(OrElse(v, dflt).s)

\* index.js:80-84 (array inputs are not among the modelled bodies)
parseCSVList(val) ==
  IF ~Truthy(val) THEN <<>>
  ELSE LET parts == Split(val.s, ",")
           trimmed == [i \in 1..Len(parts) |-> Trim(parts[i])]
       IN SelectSeq(trimmed, LAMBDA p : p # <<>>)

-----------------------------------------------------------------------------
\* Start-up: index.js:108-133 and 356-368

ProvisionTargets == <<"database", "photos", "comments", "ratings">>

\* The value of last after a step that sends no response
NoResponse == [kind |-> "none", status |-> 0]

Init ==
  /\ cosmosClient \in BOOLEAN
  /\ blobServiceClient \in BOOLEAN
  /\ phase = "init"
  /\ photosContainer = FALSE
  /\ commentsContainer = FALSE
  /\ ratingsContainer = FALSE
  /\ startupCalls = <<>>
  /\ handlerCalls = {}
  /\ blobContainerExists = FALSE
  /\ photos = {}
  /\ comments = {}
  /\ ratings = {}
  /\ blobs = {}
  /\ blobFate = <<>>
  /\ nextId = 1
  /\ clock = 0
  /\ inflight = EmptyBag
  /\ last = NoResponse

\* initCosmos() is called (index.js:356); without a client it warns and returns
\* (index.js:109-112) and the server starts listening with no container handle.
InitCosmosStart ==
  /\ phase = "init"
  /\ phase' = IF cosmosClient THEN "provisioning" ELSE "listening"
  /\ UNCHANGED <<config, handles, provisioning, photoStore, comments, ratings,
                 nextId, clock, inflight>>
  /\ last' = NoResponse

\* The handle a successful createIfNotExists assigns (index.js:116-129).
HandleAfter(target, handle, name) == IF target = name THEN TRUE ELSE handle

\* Variant: a rejected createIfNotExists is swallowed and the server listens.
InitCosmosStepSwallowed(ok) ==
  /\ phase = "provisioning"
  /\ LET target == ProvisionTargets[Len(startupCalls) + 1]
     IN /\ startupCalls' = Append(startupCalls, target)
        /\ IF ok
           THEN /\ photosContainer' = HandleAfter(target, photosContainer, "photos")
                /\ commentsContainer' = HandleAfter(target, commentsContainer, "comments")
                /\ ratingsContainer' = HandleAfter(target, ratingsContainer, "ratings")
                /\ phase' = IF Len(startupCalls') = Len(ProvisionTargets)
                            THEN "listening" ELSE "provisioning"
           ELSE /\ phase' = "listening"
                /\ UNCHANGED handles
  /\ UNCHANGED <<config, handlerCalls, blobContainerExists, photoStore, comments,
                 ratings, nextId, clock, inflight>>
  /\ last' = NoResponse

\* One awaited createIfNotExists of initCosmos (index.js:114-129): the calls are
\* issued one after the other; a rejection reaches the catch of index.js:365-368
\* and the process exits, the last resolution reaches app.listen (index.js:358).
InitCosmosStep(ok) ==
  /\ phase = "provisioning"
  /\ LET target == ProvisionTargets[Len(startupCalls) + 1]
     IN /\ startupCalls' = Append(startupCalls, target)
        /\ IF ok
           THEN /\ photosContainer' = HandleAfter(target, photosContainer, "photos")
                /\ commentsContainer' = HandleAfter(target, commentsContainer, "comments")
                /\ ratingsContainer' = HandleAfter(target, ratingsContainer, "ratings")
                /\ phase' = IF Len(startupCalls') = Len(ProvisionTargets)
                            THEN "listening" ELSE "provisioning"
           ELSE /\ phase' = "exited"
                /\ UNCHANGED handles
  /\ UNCHANGED <<config, handlerCalls, blobContainerExists, photoStore, comments,
                 ratings, nextId, clock, inflight>>
  /\ last' = NoResponse

\* Time passes between two evaluations of new Date().
Tick ==
  /\ clock < MaxClock
  /\ clock' = clock + 1
  /\ UNCHANGED <<config, phase, handles, provisioning, photoStore, comments, ratings,
                 nextId, inflight>>
  /\ last' = NoResponse

\* The server is listening and can take one more request.
Accepting == phase = "listening" /\ BagCardinality(inflight) < MaxInFlight

\* the requests suspended at an await
Suspended == BagToSet(inflight)

\* inflight with one more request, without request r, with r replaced by r2
With(r) == inflight (+) SetToBag({r})
Without(r) == inflight (-) SetToBag({r})
Replaced(r, r2) == (inflight (-) SetToBag({r})) (+) SetToBag({r2})

\* ORDER BY c.createdAt DESC of the three queries (index.js:221, 224, 286):
\* the most recent document first; documents of one instant come in the order
\* of their ids, the store promising none.
MostRecent(docs) ==
  CHOOSE d \in docs :
    \A e \in docs : e.createdAt < d.createdAt \/ (e.createdAt = d.createdAt /\ e.id >= d.id)

RECURSIVE OrderByCreatedAtDesc(_)
OrderByCreatedAtDesc(docs) ==
  IF docs = {} THEN <<>>
  ELSE <<MostRecent(docs)>> \o OrderByCreatedAtDesc(docs \ {MostRecent(docs)})

-----------------------------------------------------------------------------
\* POST /api/photos: index.js:159-205, uploadToBlob: index.js:86-105

\* Request bodies.  A multipart request (the only kind that carries a file)
\* has string fields only; a JSON body can hold any JSON value.
Body(title, url, caption, location, tags) ==
  [title |-> title, url |-> url, caption |-> caption, location |-> location,
   people |-> Undef, tags |-> tags, visibility |-> Undef]

\* title and url given
TitledUrlBody == Body(Str(<<" ", "A", "b">>), Str(<<" ", "u", " ">>), Undef, Undef, Undef)
\* title given, url absent
TitledBody == Body(Str(<<"b">>), Undef, Undef, Undef, Undef)
\* title blank
BlankTitleBody == Body(Str(<<" ">>), Str(<<"u">>), Undef, Undef, Undef)
\* title given, url blank
BlankUrlBody == Body(Str(<<"b">>), Str(<<" ">>), Undef, Undef, Undef)
\* title a number, caption a number: JSON only
NumberTitleBody == Body(Num(14), Str(<<"u">>), Undef, Undef, Undef)
NumberCaptionBody == Body(Str(<<"b">>), Str(<<"u">>), Num(2), Undef, Undef)

MultipartBodies == { TitledUrlBody, TitledBody, BlankTitleBody }

JsonBodies ==
  { TitledUrlBody, TitledBody, BlankTitleBody, BlankUrlBody, NumberTitleBody,
    NumberCaptionBody }

\* Bodies whose photos differ in the fields a search reads or must not read.
SearchBodies ==
  { Body(Str(<<"A", "b">>), Str(<<"u">>), Undef, Undef, Undef),
    Body(Str(<<"b">>), Str(<<"u">>), Str(<<" ", "A">>), Undef, Str(<<"a", ",", " ", ",", "u">>)),
    Body(Str(<<"u">>), Str(<<"a">>), Undef, Str(<<"A">>), Undef) }

\* A client can also name, as its explicit url, the url of a photo it was shown.
KnownUrlBodies ==
  { Body(Str(<<"b">>), Str(p.url), Undef, Undef, Undef) : p \in photos }

NoFile == [present |-> FALSE, originalname |-> Undef, mimetype |-> Undef]
File(name) == [present |-> TRUE, originalname |-> name, mimetype |-> Undef]
Files == { File(Str(<<"a", ".", "b">>)), File(Undef) }

Public == <<"p", "u", "b", "l", "i", "c">>
UploadJpg == <<"u", "p", "l", "o", "a", "d", ".", "j", "p", "g">>
Jpg == <<"j", "p", "g">>

NoDoc == [id |-> 0]

\* index.js:94-96: the blob name is a fresh uuid and the extension of the
\* original name (the text after its last "."), "jpg" when it has none.
BlobName(file, uuid) ==
  LET originalName == OrElse(file.originalname, UploadJpg).s
      parts == Split(originalName, ".")
      ext == IF Includes(originalName, <<".">>) THEN parts[Len(parts)] ELSE Jpg
  IN <<ToString(uuid), ".">> \o ext

\* blockBlobClient.url (index.js:104): the container's url and the blob name
BlobUrl(name) == <<"/">> \o name

\* index.js:187-197
BuildPhoto(body, title, url, uuid, now) ==
  [id |-> uuid,
   title |-> title,
   caption |-> TrimOr(body.caption, <<>>),
   location |-> TrimOr(body.location, <<>>),
   people |-> parseCSVList(body.people),
   tags |-> parseCSVList(body.tags),
   visibility |-> TrimOr(body.visibility, Public),
   url |-> url,
   createdAt |-> now]

BuildPhotoThrows(body) ==
  TrimThrows(body.caption) \/ TrimThrows(body.location) \/ TrimThrows(body.visibility)

\* Variant: the title is tested before it is trimmed.
CreatePhotoEarlyStatusUntrimmed(body, file) ==
  IF ~photosContainer THEN 500
  ELSE IF TrimThrows(body.title) THEN 500
  ELSE IF OrElse(body.title, <<>>).s = <<>> THEN 400
  ELSE IF TrimThrows(body.url) THEN 500
  ELSE IF file.present THEN (IF ~blobServiceClient THEN 500 ELSE 0)
  ELSE IF TrimOr(body.url, <<>>) = <<>> THEN 400
  ELSE IF BuildPhotoThrows(body) THEN 500
  ELSE 0

\* The synchronous head of the handler, index.js:161-185: the response it
\* sends at once, or 0 when it goes on to an await.
CreatePhotoEarlyStatus(body, file) ==
  IF ~photosContainer THEN 500
  ELSE IF TrimThrows(body.title) THEN 500
  ELSE IF TrimOr(body.title, <<>>) = <<>> THEN 400
  ELSE IF TrimThrows(body.url) THEN 500
  ELSE IF file.present THEN (IF ~blobServiceClient THEN 500 ELSE 0)
  ELSE IF TrimOr(body.url, <<>>) = <<>> THEN 400
  ELSE IF BuildPhotoThrows(body) THEN 500
  ELSE 0

\* blobUrl: the url of the blob the request wrote, <<>> when it wrote none
CreatePhotoResponse(status, body, file, photo, blobUrl) ==
  [kind |-> "createPhoto", status |-> status, body |-> body, file |-> file,
   photo |-> photo, blobUrl |-> blobUrl]

\* Arrival of POST /api/photos, run to its first await.
CreatePhotoReceive(body, file) ==
  /\ Accepting
  /\ LET early == CreatePhotoEarlyStatus(body, file)
         title == TrimOr(body.title, <<>>)
         url == TrimOr(body.url, <<>>)
         req == [kind |-> "createPhoto", pc |-> "ensure", body |-> body, file |-> file,
                 title |-> title, url |-> url, blobName |-> <<>>, uploaded |-> FALSE,
                 photo |-> NoDoc]
     IN IF early # 0
        THEN /\ last' = CreatePhotoResponse(early, body, file, NoDoc, <<>>)
             /\ UNCHANGED <<inflight, nextId>>
        ELSE IF file.present
        THEN \* uploadToBlob awaits containerClient.createIfNotExists (index.js:92)
             /\ inflight' = With(req)
             /\ last' = NoResponse
             /\ UNCHANGED nextId
        ELSE \* no file: the photo is built and items.create awaited (index.js:199)
             /\ nextId <= MaxId
             /\ inflight' = With([req EXCEPT !.pc = "insert",
                              !.photo = BuildPhoto(body, title, url, nextId, clock)])
             /\ nextId' = nextId + 1
             /\ last' = NoResponse
  /\ UNCHANGED <<config, phase, handles, provisioning, photoStore, comments, ratings, clock>>

\* containerClient.createIfNotExists resolves or rejects (index.js:92); on
\* success the blob name is drawn and uploadData awaited (index.js:94-100).
CreatePhotoEnsureContainer(r, ok) ==
  /\ r \in Suspended
  /\ r.kind = "createPhoto" /\ r.pc = "ensure"
  /\ handlerCalls' = handlerCalls \cup {[target |-> "blobContainer", by |-> "createPhoto"]}
  /\ IF ok
     THEN /\ nextId <= MaxId
          /\ blobContainerExists' = TRUE
          /\ inflight' = Replaced(r,
               [r EXCEPT !.pc = "upload", !.blobName = BlobName(r.file, nextId)])
          /\ nextId' = nextId + 1
          /\ last' = NoResponse
     ELSE /\ last' = CreatePhotoResponse(500, r.body, r.file, NoDoc, <<>>)
          /\ inflight' = Without(r)
          /\ UNCHANGED <<blobContainerExists, nextId>>
  /\ UNCHANGED <<config, phase, handles, startupCalls, photoStore, comments, ratings, clock>>

\* Variant: an upload that rejects has already written its blob.
CreatePhotoUploadPartial(r, ok) ==
  /\ r \in Suspended
  /\ r.kind = "createPhoto" /\ r.pc = "upload"
  /\ LET url == BlobUrl(r.blobName)
     IN /\ nextId <= MaxId
        /\ blobs' = blobs \cup {[name |-> r.blobName, url |-> url]}
        /\ IF ok
           THEN /\ blobFate' = (url :> [st |-> "pending", photo |-> 0]) @@ blobFate
                /\ inflight' = Replaced(r,
                     [r EXCEPT !.pc = "insert", !.url = url, !.uploaded = TRUE,
                               !.photo = BuildPhoto(r.body, r.title, url, nextId, clock)])
                /\ nextId' = nextId + 1
                /\ last' = NoResponse
           ELSE /\ blobFate' = (url :> [st |-> "dropped", photo |-> 0]) @@ blobFate
                /\ last' = CreatePhotoResponse(500, r.body, r.file, NoDoc, <<>>)
                /\ inflight' = Without(r)
                /\ UNCHANGED nextId
  /\ UNCHANGED <<config, phase, handles, provisioning, photos, comments, ratings, clock>>

\* blockBlobClient.uploadData resolves or rejects (index.js:100); on success
\* the handler resumes at index.js:180 with the blob's url.
CreatePhotoUpload(r, ok) ==
  /\ r \in Suspended
  /\ r.kind = "createPhoto" /\ r.pc = "upload"
  /\ LET url == BlobUrl(r.blobName)
     IN IF ok
        THEN /\ nextId <= MaxId
             /\ blobs' = blobs \cup {[name |-> r.blobName, url |-> url]}
             /\ IF url = <<>> \/ BuildPhotoThrows(r.body)
                THEN /\ last' = CreatePhotoResponse(IF url = <<>> THEN 400 ELSE 500,
                                                    r.body, r.file, NoDoc, url)
                     /\ blobFate' = (url :> [st |-> "dropped", photo |-> 0]) @@ blobFate
                     /\ inflight' = Without(r)
                     /\ UNCHANGED nextId
                ELSE /\ blobFate' = (url :> [st |-> "pending", photo |-> 0]) @@ blobFate
                     /\ inflight' = Replaced(r,
                          [r EXCEPT !.pc = "insert", !.url = url, !.uploaded = TRUE,
                                    !.photo = BuildPhoto(r.body, r.title, url, nextId, clock)])
                     /\ nextId' = nextId + 1
                     /\ last' = NoResponse
        ELSE /\ last' = CreatePhotoResponse(500, r.body, r.file, NoDoc, <<>>)
             /\ inflight' = Without(r)
             /\ UNCHANGED <<blobs, blobFate, nextId>>
  /\ UNCHANGED <<config, phase, handles, provisioning, photos, comments, ratings, clock>>

\* What becomes of the blob of a request that reaches the end of its insert.
FateAfterInsert(r, ok) ==
  IF r.uploaded
  THEN [blobFate EXCEPT ![r.url] = IF ok THEN [st |-> "stored", photo |-> r.photo.id]
                                         ELSE [st |-> "failed", photo |-> 0]]
  ELSE blobFate

\* photosContainer.items.create resolves or rejects (index.js:199-204).
CreatePhotoInsert(r, ok) ==
  /\ r \in Suspended
  /\ r.kind = "createPhoto" /\ r.pc = "insert"
  /\ photos' = IF ok THEN photos \cup {r.photo} ELSE photos
  /\ blobFate' = FateAfterInsert(r, ok)
  /\ last' = CreatePhotoResponse(IF ok THEN 201 ELSE 500, r.body, r.file,
                                 IF ok THEN r.photo ELSE NoDoc,
                                 IF r.uploaded THEN r.url ELSE <<>>)
  /\ inflight' = Without(r)
  /\ UNCHANGED <<config, phase, handles, provisioning, blobs, comments, ratings,
                 nextId, clock>>

-----------------------------------------------------------------------------
\* GET /api/photos: index.js:208-232

\* String(req.query.q || "").trim().toLowerCase(), index.js:212
SearchTerm(qv) == ToLowerCase(Trim(OrElse(qv, <<>>).s))

\* Variant: the url is searched too.
SearchMatchesUrl(c, q) ==
  \/ Includes(ToLowerCase(c.title), q)
  \/ Includes(ToLowerCase(c.caption), q)
  \/ Includes(ToLowerCase(c.location), q)
  \/ Includes(ToLowerCase(c.url), q)

\* The WHERE clause of index.js:217-220
SearchMatches(c, q) ==
  \/ Includes(ToLowerCase(c.title), q)
  \/ Includes(ToLowerCase(c.caption), q)
  \/ Includes(ToLowerCase(c.location), q)

\* The query of index.js:214-224 over the documents of the container
SearchQuery(docs, q) ==
  IF q # <<>>
  THEN OrderByCreatedAtDesc({ c \in docs : SearchMatches(c, q) })
  ELSE OrderByCreatedAtDesc(docs)

QueryTerms == { Undef, Str(<<" ">>), Str(<<"a">>), Str(<<" ", "B">>), Str(<<"u">>) }

ListPhotosResponse(status, qv, items) ==
  [kind |-> "listPhotos", status |-> status, q |-> qv, items |-> items]

\* Arrival of GET /api/photos, run to the await of fetchAll (index.js:226).
ListPhotosReceive(qv) ==
  /\ Accepting
  /\ IF ~photosContainer
     THEN /\ last' = ListPhotosResponse(500, qv, <<>>)
          /\ UNCHANGED inflight
     ELSE /\ inflight' = With([kind |-> "listPhotos", pc |-> "query", qv |-> qv, q |-> SearchTerm(qv)])
          /\ last' = NoResponse
  /\ UNCHANGED <<config, phase, handles, provisioning, photoStore, comments, ratings,
                 nextId, clock>>

\* fetchAll resolves with the matching documents, or rejects (index.js:226-231).
ListPhotosQuery(r, ok) ==
  /\ r \in Suspended
  /\ r.kind = "listPhotos"
  /\ last' = IF ok
             THEN ListPhotosResponse(200, r.qv, SearchQuery(photos, r.q))
             ELSE ListPhotosResponse(500, r.qv, <<>>)
  /\ inflight' = Without(r)
  /\ UNCHANGED <<config, phase, handles, provisioning, photoStore, comments, ratings,
                 nextId, clock>>

-----------------------------------------------------------------------------
\* GET /api/photos/:id: index.js:235-248

\* Ids a client may put in a path: the first two that uuidv4() can return.
PathIds == {1, 2}

\* photosContainer.item(id, id).read(): the document, or no resource
PointRead(docs, id) ==
  IF \E d \in docs : d.id = id THEN (CHOOSE d \in docs : d.id = id) ELSE NoDoc

\* threw: whether the point read rejected
GetPhotoResponse(status, id, doc, threw) ==
  [kind |-> "getPhoto", status |-> status, id |-> id, doc |-> doc, threw |-> threw]

\* The response after the point read (index.js:240-247): a read that throws is
\* caught by the bare catch and answered like a missing photo.
GetPhotoOutcome(id, ok) ==
  IF ~ok THEN GetPhotoResponse(404, id, NoDoc, TRUE)
  ELSE IF PointRead(photos, id).id = NoDoc.id
  THEN GetPhotoResponse(404, id, NoDoc, FALSE)
  ELSE GetPhotoResponse(200, id, PointRead(photos, id), FALSE)

GetPhotoReceive(id) ==
  /\ Accepting
  /\ IF ~photosContainer
     THEN /\ last' = GetPhotoResponse(500, id, NoDoc, FALSE)
          /\ UNCHANGED inflight
     ELSE /\ inflight' = With([kind |-> "getPhoto", pc |-> "read", id |-> id])
          /\ last' = NoResponse
  /\ UNCHANGED <<config, phase, handles, provisioning, photoStore, comments, ratings,
                 nextId, clock>>

GetPhotoRead(r, ok) ==
  /\ r \in Suspended
  /\ r.kind = "getPhoto"
  /\ last' = GetPhotoOutcome(r.id, ok)
  /\ inflight' = Without(r)
  /\ UNCHANGED <<config, phase, handles, provisioning, photoStore, comments, ratings,
                 nextId, clock>>

-----------------------------------------------------------------------------
\* POST /api/photos/:id/comments: index.js:251-276

CommentBody(authorName, text) == [authorName |-> authorName, text |-> text]

CommentBodies ==
  { CommentBody(Str(<<" ", "a">>), Str(<<"b", " ">>)),
    CommentBody(Str(<<" ">>), Str(<<"b">>)),
    CommentBody(Str(<<"a">>), Undef),
    CommentBody(Str(<<"a">>), Num(2)) }

\* The synchronous head of the handler, index.js:253-260
AddCommentEarlyStatus(body) ==
  IF ~commentsContainer THEN 500
  ELSE IF TrimThrows(body.authorName) \/ TrimThrows(body.text) THEN 500
  ELSE IF TrimOr(body.authorName, <<>>) = <<>> THEN 400
  ELSE IF TrimOr(body.text, <<>>) = <<>> THEN 400
  ELSE 0

\* index.js:262-268
BuildComment(photoId, body, uuid, now) ==
  [id |-> uuid,
   photoId |-> photoId,
   authorName |-> TrimOr(body.authorName, <<>>),
   text |-> TrimOr(body.text, <<>>),
   createdAt |-> now]

\* photoKnown: whether a photo with the path id was stored when the handler ran
AddCommentResponse(status, photoId, body, comment, photoKnown) ==
  [kind |-> "addComment", status |-> status, id |-> photoId, body |-> body,
   comment |-> comment, photoKnown |-> photoKnown]

PhotoStored(id) == PointRead(photos, id).id # NoDoc.id

\* Arrival of the request, run to the await of items.create (index.js:270).
AddCommentReceive(photoId, body) ==
  /\ Accepting
  /\ LET early == AddCommentEarlyStatus(body)
     IN IF early # 0
        THEN /\ last' = AddCommentResponse(early, photoId, body, NoDoc, PhotoStored(photoId))
             /\ UNCHANGED <<inflight, nextId>>
        ELSE /\ nextId <= MaxId
             /\ inflight' = With([kind |-> "addComment", pc |-> "insert", id |-> photoId,
                                  body |-> body, photoKnown |-> PhotoStored(photoId),
                                  doc |-> BuildComment(photoId, body, nextId, clock)])
             /\ nextId' = nextId + 1
             /\ last' = NoResponse
  /\ UNCHANGED <<config, phase, handles, provisioning, photoStore, comments, ratings, clock>>

\* commentsContainer.items.create resolves or rejects (index.js:270-275).
AddCommentInsert(r, ok) ==
  /\ r \in Suspended
  /\ r.kind = "addComment"
  /\ comments' = IF ok THEN comments \cup {r.doc} ELSE comments
  /\ last' = AddCommentResponse(IF ok THEN 201 ELSE 500, r.id, r.body,
                                IF ok THEN r.doc ELSE NoDoc, r.photoKnown)
  /\ inflight' = Without(r)
  /\ UNCHANGED <<config, phase, handles, provisioning, photoStore, ratings, nextId, clock>>

-----------------------------------------------------------------------------
\* GET /api/photos/:id/comments: index.js:279-296

\* Variant: the order is ascending.
ByPhotoQueryAscending(docs, photoId) ==
  LET desc == OrderByCreatedAtDesc({ c \in docs : c.photoId = photoId })
  IN [k \in 1..Len(desc) |-> desc[Len(desc) + 1 - k]]

\* The query of index.js:285-288 over the documents of a container
ByPhotoQuery(docs, photoId) ==
  OrderByCreatedAtDesc({ c \in docs : c.photoId = photoId })

ListCommentsResponse(status, photoId, items) ==
  [kind |-> "listComments", status |-> status, id |-> photoId, items |-> items]

ListCommentsReceive(photoId) ==
  /\ Accepting
  /\ IF ~commentsContainer
     THEN /\ last' = ListCommentsResponse(500, photoId, <<>>)
          /\ UNCHANGED inflight
     ELSE /\ inflight' = With([kind |-> "listComments", pc |-> "query", id |-> photoId])
          /\ last' = NoResponse
  /\ UNCHANGED <<config, phase, handles, provisioning, photoStore, comments, ratings,
                 nextId, clock>>

\* fetchAll resolves or rejects (index.js:290-295).
ListCommentsQuery(r, ok) ==
  /\ r \in Suspended
  /\ r.kind = "listComments"
  /\ last' = IF ok
             THEN ListCommentsResponse(200, r.id, ByPhotoQuery(comments, r.id))
             ELSE ListCommentsResponse(500, r.id, <<>>)
  /\ inflight' = Without(r)
  /\ UNCHANGED <<config, phase, handles, provisioning, photoStore, comments, ratings,
                 nextId, clock>>

-----------------------------------------------------------------------------
\* POST /api/photos/:id/rating: index.js:299-323

Digits == <<"0", "1", "2", "3", "4", "5", "6", "7", "8", "9">>
IsDigit(c) == \E d \in 1..Len(Digits) : Digits[d] = c
DigitValue(c) == (CHOOSE d \in 1..Len(Digits) : Digits[d] = c) - 1

RECURSIVE DecimalValue(_)
DecimalValue(ds) ==
  IF ds = <<>> THEN 0
  ELSE 10 * DecimalValue(SubSeq(ds, 1, Len(ds) - 1)) + DigitValue(ds[Len(ds)])

AllDigits(ds) == \A k \in 1..Len(ds) : IsDigit(ds[k])

NaN == [nan |-> TRUE, h |-> 0]
Finite(h) == [nan |-> FALSE, h |-> h]

\* Number(string): the trimmed text is empty (0), an unsigned decimal literal
\* with at most one fraction digit that is 0 or 5, or not a number.  A number
\* is counted in halves, so other fraction digits are left out of the inputs.
StringToNumber(s) ==
  LET t == Trim(s)
      parts == Split(t, ".")
      whole == parts[1]
      frac == IF Len(parts) = 2 THEN parts[2] ELSE <<>>
  IN IF t = <<>> THEN Finite(0)
     ELSE IF Len(parts) > 2 \/ ~AllDigits(whole) \/ (whole = <<>> /\ frac = <<>>)
     THEN NaN
     ELSE IF frac \in {<<>>, <<"0">>} THEN Finite(2 * DecimalValue(whole))
     ELSE IF frac = <<"5">> THEN Finite(2 * DecimalValue(whole) + 1)
     ELSE NaN

\* Number(req.body.rating), index.js:304
ToNumber(v) ==
  CASE v.t = "undefined" -> NaN
    [] v.t = "string" -> StringToNumber(v.s)
    [] v.t = "number" -> Finite(v.h)

\* The test of index.js:306, negated: the rating is accepted
RatingAccepted(n) == ~(n.nan \/ n.h < 2 \/ n.h > 10)

RatingInputs ==
  { Undef, Num(0), Num(12), Str(<<"x">>), Num(5), Str(<<" ", "4">>) }

\* photoKnown: whether a photo with the path id was stored when the handler ran
AddRatingResponse(status, photoId, input, doc, photoKnown) ==
  [kind |-> "addRating", status |-> status, id |-> photoId, input |-> input,
   doc |-> doc, photoKnown |-> photoKnown]

\* A rating-summary request that is suspended while an add-rating request is.
Overlapped(r) == IF r.kind = "ratingSummary" THEN [r EXCEPT !.quiet = FALSE] ELSE r

\* The bag of the suspended requests, every rating summary marked overlapped
OverlappedAll(B) ==
  LET S == BagToSet(B)
      RECURSIVE Copies(_, _)
      Copies(xs, y) ==
        IF xs = {} THEN 0
        ELSE LET x == CHOOSE x \in xs : TRUE
             IN (IF Overlapped(x) = y THEN B[x] ELSE 0) + Copies(xs \ {x}, y)
  IN [y \in {Overlapped(x) : x \in S} |-> Copies(S, y)]

\* Arrival of the request, run to the await of items.create (index.js:317).
AddRatingReceive(photoId, input) ==
  /\ Accepting
  /\ LET rating == ToNumber(input)
         respond(status) ==
           /\ last' = AddRatingResponse(status, photoId, input, NoDoc, PhotoStored(photoId))
           /\ UNCHANGED <<inflight, nextId>>
     IN IF ~ratingsContainer THEN respond(500)
        ELSE IF ~RatingAccepted(rating) THEN respond(400)
        ELSE /\ nextId <= MaxId
             /\ inflight' = OverlappedAll(inflight) (+)
                  SetToBag({[kind |-> "addRating", pc |-> "insert", id |-> photoId,
                             input |-> input, photoKnown |-> PhotoStored(photoId),
                             doc |-> [id |-> nextId, photoId |-> photoId,
                                      rating |-> rating.h, createdAt |-> clock]]})
             /\ nextId' = nextId + 1
             /\ last' = NoResponse
  /\ UNCHANGED <<config, phase, handles, provisioning, photoStore, comments, ratings, clock>>

\* ratingsContainer.items.create resolves or rejects (index.js:317-322).
AddRatingInsert(r, ok) ==
  /\ r \in Suspended
  /\ r.kind = "addRating"
  /\ ratings' = IF ok THEN ratings \cup {r.doc} ELSE ratings
  /\ last' = AddRatingResponse(IF ok THEN 201 ELSE 500, r.id, r.input,
                               IF ok THEN r.doc ELSE NoDoc, r.photoKnown)
  /\ inflight' = Without(r)
  /\ UNCHANGED <<config, phase, handles, provisioning, photoStore, comments, nextId, clock>>

-----------------------------------------------------------------------------
\* GET /api/photos/:id/rating: index.js:326-353

RECURSIVE SumRatings(_)
SumRatings(docs) ==
  IF docs = {} THEN 0
  ELSE LET d == CHOOSE d \in docs : TRUE IN d.rating + SumRatings(docs \ {d})

\* Variant: the WHERE clause is missing.
OfAnyPhoto(docs, photoId) == docs

\* WHERE c.photoId = @photoId (index.js:333, 338)
OfPhoto(docs, photoId) == { c \in docs : c.photoId = photoId }

\* A mean is kept as the pair of the sum (in halves) and the number of values.
NullAverage == [isNull |-> TRUE, sum |-> 0, n |-> 0]
Mean(sum, n) == [isNull |-> FALSE, sum |-> sum, n |-> n]

\* SELECT VALUE AVG(c.rating) ... (index.js:333): the resources of the result,
\* which hold no value when no document matches
AvgQuery(docs, photoId) ==
  LET mine == OfPhoto(docs, photoId)
  IN IF mine = {} THEN <<>> ELSE <<Mean(SumRatings(mine), Cardinality(mine))>>

\* Variant: the count is of the distinct rating values.
CountQueryDistinct(docs, photoId) ==
  <<Cardinality({ c.rating : c \in OfPhoto(docs, photoId) })>>

\* SELECT VALUE COUNT(1) ... (index.js:338)
CountQuery(docs, photoId) == <<Cardinality(OfPhoto(docs, photoId))>>

\* resources?.[0] ?? dflt (index.js:345-346)
FirstOr(resources, dflt) == IF resources = <<>> THEN dflt ELSE resources[1]

\* quiet: no add-rating request was suspended while the summary was
SummaryResponse(status, photoId, average, count, quiet) ==
  [kind |-> "ratingSummary", status |-> status, id |-> photoId, average |-> average,
   count |-> count, quiet |-> quiet]

AddRatingSuspended == \E r \in Suspended : r.kind = "addRating"

\* Arrival of the request, run to the await of the first fetchAll (index.js:342).
SummaryReceive(photoId) ==
  /\ Accepting
  /\ IF ~ratingsContainer
     THEN /\ last' = SummaryResponse(500, photoId, NullAverage, 0, ~AddRatingSuspended)
          /\ UNCHANGED inflight
     ELSE /\ inflight' = With([kind |-> "ratingSummary", pc |-> "avg", id |-> photoId,
                               avgRes |-> <<>>, quiet |-> ~AddRatingSuspended])
          /\ last' = NoResponse
  /\ UNCHANGED <<config, phase, handles, provisioning, photoStore, comments, ratings,
                 nextId, clock>>

\* The AVG query resolves or rejects; on success the COUNT query is awaited
\* (index.js:342-343).
SummaryAvg(r, ok) ==
  /\ r \in Suspended
  /\ r.kind = "ratingSummary" /\ r.pc = "avg"
  /\ IF ok
     THEN /\ inflight' = Replaced(r, [r EXCEPT !.pc = "count",
                                               !.avgRes = AvgQuery(ratings, r.id)])
          /\ last' = NoResponse
     ELSE /\ last' = SummaryResponse(500, r.id, NullAverage, 0, r.quiet)
          /\ inflight' = Without(r)
  /\ UNCHANGED <<config, phase, handles, provisioning, photoStore, comments, ratings,
                 nextId, clock>>

\* The COUNT query resolves or rejects, and the summary is sent (index.js:343-352).
SummaryCount(r, ok) ==
  /\ r \in Suspended
  /\ r.kind = "ratingSummary" /\ r.pc = "count"
  /\ last' = IF ok
             THEN SummaryResponse(200, r.id, FirstOr(r.avgRes, NullAverage),
                                  FirstOr(CountQuery(ratings, r.id), 0), r.quiet)
             ELSE SummaryResponse(500, r.id, NullAverage, 0, r.quiet)
  /\ inflight' = Without(r)
  /\ UNCHANGED <<config, phase, handles, provisioning, photoStore, comments, ratings,
                 nextId, clock>>

-----------------------------------------------------------------------------
Startup ==
  \/ InitCosmosStart
  \/ \E ok \in BOOLEAN : InitCosmosStep(ok)

CreatePhotoSteps ==
  \/ \E r \in Suspended, ok \in BOOLEAN : CreatePhotoEnsureContainer(r, ok)
  \/ \E r \in Suspended, ok \in BOOLEAN : CreatePhotoUpload(r, ok)
  \/ \E r \in Suspended, ok \in BOOLEAN : CreatePhotoInsert(r, ok)

CreatePhoto ==
  \/ \E body \in JsonBodies \cup KnownUrlBodies : CreatePhotoReceive(body, NoFile)
  \/ \E body \in MultipartBodies, file \in Files : CreatePhotoReceive(body, file)
  \/ CreatePhotoSteps

ListPhotos ==
  \/ \E qv \in QueryTerms : ListPhotosReceive(qv)
  \/ \E r \in Suspended, ok \in BOOLEAN : ListPhotosQuery(r, ok)

GetPhoto ==
  \/ \E id \in PathIds : GetPhotoReceive(id)
  \/ \E r \in Suspended, ok \in BOOLEAN : GetPhotoRead(r, ok)

AddComment ==
  \/ \E id \in PathIds, body \in CommentBodies : AddCommentReceive(id, body)
  \/ \E r \in Suspended, ok \in BOOLEAN : AddCommentInsert(r, ok)

ListComments ==
  \/ \E id \in PathIds : ListCommentsReceive(id)
  \/ \E r \in Suspended, ok \in BOOLEAN : ListCommentsQuery(r, ok)

AddRating ==
  \/ \E id \in PathIds, input \in RatingInputs : AddRatingReceive(id, input)
  \/ \E r \in Suspended, ok \in BOOLEAN : AddRatingInsert(r, ok)

RatingSummary ==
  \/ \E id \in PathIds : SummaryReceive(id)
  \/ \E r \in Suspended, ok \in BOOLEAN : SummaryAvg(r, ok)
  \/ \E r \in Suspended, ok \in BOOLEAN : SummaryCount(r, ok)

\* A photo posted by url, for the requests that name a photo
CreateUrlPhoto ==
  \/ CreatePhotoReceive(TitledUrlBody, NoFile)
  \/ \E r \in Suspended, ok \in BOOLEAN : CreatePhotoInsert(r, ok)

\* Photos posted by url, for the searches
CreateSearchPhoto ==
  \/ \E body \in SearchBodies : CreatePhotoReceive(body, NoFile)
  \/ \E r \in Suspended, ok \in BOOLEAN : CreatePhotoInsert(r, ok)

\* The whole server
Next ==
  Startup \/ Tick \/ CreatePhoto \/ ListPhotos \/ GetPhoto \/ AddComment
    \/ ListComments \/ AddRating \/ RatingSummary

Spec == Init /\ [][Next]_vars

\* The server restricted to the handlers of one resource
NextUpload == Startup \/ CreatePhoto
NextSearch == Startup \/ Tick \/ CreateSearchPhoto \/ ListPhotos
NextGet == Startup \/ CreateUrlPhoto \/ GetPhoto
NextComments == Startup \/ Tick \/ CreateUrlPhoto \/ AddComment \/ ListComments
NextRatings == Startup \/ AddRating \/ RatingSummary

SpecUpload == Init /\ [][NextUpload]_vars
SpecSearch == Init /\ [][NextSearch]_vars
SpecGet == Init /\ [][NextGet]_vars
SpecComments == Init /\ [][NextComments]_vars
SpecRatings == Init /\ [][NextRatings]_vars

-----------------------------------------------------------------------------
\* Properties of POST /api/photos

Range(seq) == { seq[k] : k \in 1..Len(seq) }

\* The title of the body is empty once trimmed
TitleBlank(body) == body.title.t \in {"undefined", "string"} /\ Trim(body.title.s) = <<>>

\* The body has no url, or one that is empty once trimmed
UrlBlank(body) == body.url.t \in {"undefined", "string"} /\ Trim(body.url.s) = <<>>

\* The request carries neither a title nor, failing that, a media reference
Unacceptable(body, file) == TitleBlank(body) \/ (~file.present /\ UrlBlank(body))

\* Every stored photo has a trimmed, non-empty title and a non-empty url
PhotosWellFormed ==
  \A p \in photos : p.title # <<>> /\ Trim(p.title) = p.title /\ p.url # <<>>

\* The photo of a 201 is stored, and its url is the url of the blob the request
\* wrote when it carried a file, the trimmed explicit url otherwise
CreatedUrlResolved ==
  (last.kind = "createPhoto" /\ last.status = 201) =>
    /\ last.photo \in photos
    /\ IF last.file.present
       THEN \E b \in blobs : b.url = last.photo.url /\ last.blobUrl = b.url
       ELSE last.photo.url = Trim(last.body.url.s) /\ last.blobUrl = <<>>

\* A step that answers a create-photo request otherwise than 201 stores no photo
RefusalStoresNothing ==
  (last'.kind = "createPhoto" /\ last'.status # 201) => photos' = photos

-----------------------------------------------------------------------------
\* Properties of provisioning

\* A request has been taken: one is answered or suspended, or has left a trace
Served ==
  \/ last.kind # "none" \/ inflight # EmptyBag
  \/ photos # {} \/ comments # {} \/ ratings # {} \/ blobs # {}
  \/ handlerCalls # {} \/ nextId > 1

IsPrefix(a, b) == Len(a) <= Len(b) /\ SubSeq(b, 1, Len(a)) = a

\* C7 as stated: the blob container and the three collections are provisioned
\* once at process start, one after the other, before the first request is
\* accepted; no request handler issues a create-if-not-exists call; if a
\* start-up call fails the process exits without serving a request.
C7_AsStated ==
  /\ phase = "listening" =>
       /\ {"photos", "comments", "ratings"} \subseteq Range(startupCalls)
       /\ blobContainerExists
  /\ handlerCalls = {}
  /\ Served => phase = "listening"

\* C7 amended: with the document store configured, the database and the three
\* collections are provisioned once each at process start, in that order, and
\* all of it is done before the first request is accepted; with it not
\* configured nothing is provisioned and the server listens all the same.  The
\* blob container is never provisioned at start-up: the only create-if-not-exists
\* call of a handler is the one each file upload issues on the blob container.
\* If a start-up call fails the process exits without serving a request.
C7_ProvisioningAtStartup ==
  /\ IsPrefix(startupCalls, ProvisionTargets)
  /\ phase = "listening" =>
       startupCalls = (IF cosmosClient THEN ProvisionTargets ELSE <<>>)
  /\ phase = "listening" =>
       (photosContainer = cosmosClient /\ commentsContainer = cosmosClient
          /\ ratingsContainer = cosmosClient)
  /\ handlerCalls \subseteq {[target |-> "blobContainer", by |-> "createPhoto"]}
  /\ blobContainerExists => handlerCalls # {}
  /\ blobs # {} => blobContainerExists
  /\ Served => phase = "listening"
  /\ phase = "exited" => (~Served /\ Len(startupCalls) >= 1)

\* C7 witness: the server listens after its four start-up calls, and an upload
\* has issued the blob container's create-if-not-exists and stored its photo.
C7_Witness ==
  /\ phase = "listening" /\ startupCalls = ProvisionTargets
  /\ handlerCalls # {}
  /\ last.kind = "createPhoto" /\ last.status = 201 /\ last.file.present

-----------------------------------------------------------------------------
\* Properties of the blobs

PhotosWithUrl(url) == { p \in photos : p.url = url }

UploadPending(url) ==
  \E r \in Suspended : r.kind = "createPhoto" /\ r.uploaded /\ r.url = url

\* What a create-photo response says of the blob of its request
ResponseAccountsForBlob ==
  last.kind = "createPhoto" =>
    /\ last.status = 400 => last.blobUrl = <<>>
    /\ ~photosContainer => (last.status = 500 /\ blobs = {})
    /\ (last.status = 500 /\ last.blobUrl # <<>>) => blobFate[last.blobUrl].st = "failed"
    /\ (last.status = 201 /\ last.file.present) =>
         blobFate[last.blobUrl] = [st |-> "stored", photo |-> last.photo.id]

-----------------------------------------------------------------------------
\* Properties of GET /api/photos

\* Newest first: no document comes before a more recent one
NewestFirst(items) ==
  \A i, j \in 1..Len(items) : i < j => items[i].createdAt >= items[j].createdAt

\* items lists each document of the set once, and nothing else
ListsExactly(items, set) == Range(items) = set /\ Len(items) = Cardinality(set)

\* The term is a substring of the photo's title, caption or location, case aside
TermFound(p, term) ==
  \E field \in {p.title, p.caption, p.location} :
    \E i \in 1..Len(field) :
      /\ i + Len(term) - 1 <= Len(field)
      /\ \A k \in 1..Len(term) : LowerChar(field[i + k - 1]) = LowerChar(term[k])

\* The photos stored when a search answers
PhotosSeen == photos

QueryAbsent(qv) == qv.t = "undefined" \/ Trim(qv.s) = <<>>

\* C5 as stated: a search with a non-empty term q returns exactly the stored
\* photos whose lower-cased title, caption or location contains the lower-cased
\* q, a search with q absent or empty after trimming returns every stored photo,
\* and both are ordered by creation timestamp, newest first.
C5_AsStated ==
  (last.kind = "listPhotos" /\ last.status = 200) =>
    /\ NewestFirst(last.items)
    /\ IF QueryAbsent(last.q)
       THEN ListsExactly(last.items, PhotosSeen)
       ELSE ListsExactly(last.items, { p \in PhotosSeen : TermFound(p, last.q.s) })

\* C5 amended: the term that is looked for is q trimmed and lower-cased.
C5_SearchTrimmedTerm ==
  (last.kind = "listPhotos" /\ last.status = 200) =>
    /\ NewestFirst(last.items)
    /\ IF QueryAbsent(last.q)
       THEN ListsExactly(last.items, PhotosSeen)
       ELSE ListsExactly(last.items, { p \in PhotosSeen : TermFound(p, Trim(last.q.s)) })

\* C5 witness: a search for " B" over three photos has returned the two that
\* hold "b", the more recent first.
C5_Witness ==
  /\ last.kind = "listPhotos" /\ last.status = 200
  /\ last.q = Str(<<" ", "B">>)
  /\ Cardinality(photos) = 3 /\ Len(last.items) = 2
  /\ last.items[1].createdAt > last.items[2].createdAt

-----------------------------------------------------------------------------
\* Properties of the failures of the stores

\* C6 as stated (for get-photo): a point read that fails is answered 500, and
\* 404 is answered only when no photo with the id is stored.
C6_AsStated ==
  last.kind = "getPhoto" =>
    /\ last.threw => last.status = 500
    /\ last.status = 404 => \A p \in photos : p.id # last.id

-----------------------------------------------------------------------------
\* Properties of the comments

\* C2 as stated: a comment or a rating posted to an id that matches no photo is
\* answered 404 and stores nothing, so every comment and every rating refers to
\* a stored photo (photos are never deleted).
C2_AsStated ==
  /\ \A c \in comments : \E p \in photos : p.id = c.photoId
  /\ \A c \in ratings : \E p \in photos : p.id = c.photoId

\* The comments stored when a listing answers
CommentsSeen == comments

\* C8: the listing of the comments of photo id A returns exactly the comments
\* stored with photoId = A, none stored for another id, newest first.
C8_CommentsOfPhoto ==
  (last.kind = "listComments" /\ last.status = 200) =>
    /\ ListsExactly(last.items, { c \in CommentsSeen : c.photoId = last.id })
    /\ NewestFirst(last.items)

\* C8 witness: two comments of the photo are listed, the more recent first,
\* and a comment of another id is stored.
C8_Witness ==
  /\ last.kind = "listComments" /\ last.status = 200
  /\ Len(last.items) = 2
  /\ last.items[1].createdAt > last.items[2].createdAt
  /\ \E c \in CommentsSeen : c.photoId # last.id

-----------------------------------------------------------------------------
\* Properties of the ratings

\* C3 as stated: every stored rating is an integer between 1 and 5 (an even
\* number of halves between 2 and 10).
C3_AsStated == \A c \in ratings : c.rating \in {2, 4, 6, 8, 10}

\* The ratings of the photo of a summary, stored when the summary answers
RatingsSeen == { c \in ratings : c.photoId = last.id }

RECURSIVE SumOver(_)
SumOver(cs) ==
  IF cs = {} THEN 0
  ELSE LET c == CHOOSE c \in cs : TRUE IN c.rating + SumOver(cs \ {c})

\* The summary gives the number and the mean of the ratings of its photo
SummaryExact ==
  /\ last.count = Cardinality(RatingsSeen)
  /\ last.average.isNull = (RatingsSeen = {})
  /\ RatingsSeen # {} =>
       /\ last.average.n > 0
       /\ last.average.sum * Cardinality(RatingsSeen) = SumOver(RatingsSeen) * last.average.n

\* C4: a summary that runs while no add-rating request is in flight returns the
\* number of the ratings stored for its photo (those of other photos left out)
\* and their mean, and a null average with count 0 when there is none.
C4_SummaryExactWhenQuiet ==
  (last.kind = "ratingSummary" /\ last.status = 200 /\ last.quiet) => SummaryExact

\* C4 witness: a quiet summary of a photo with two ratings, while another photo
\* has a rating too.
C4_Witness ==
  /\ last.kind = "ratingSummary" /\ last.status = 200 /\ last.quiet
  /\ last.count = 2
  /\ \E c \in ratings : c.photoId # last.id

\* C9: however a summary interleaves with add-rating requests, its count is not
\* smaller than the number of ratings its average was taken over, so a count of
\* 0 comes with a null average; and a summary that starts when they have all
\* completed is exact.
C9_SummaryUnderWrites ==
  (last.kind = "ratingSummary" /\ last.status = 200) =>
    /\ last.count >= last.average.n
    /\ last.count = 0 => last.average.isNull
    /\ last.average.isNull = (last.average.n = 0)
    /\ last.count = Cardinality(RatingsSeen)
    /\ last.quiet => SummaryExact

\* C9 witness: a rating was stored between the two reads of a summary, whose
\* count exceeds the number of ratings behind its average.
C9_Witness ==
  /\ last.kind = "ratingSummary" /\ last.status = 200
  /\ ~last.quiet
  /\ last.average.n >= 1
  /\ last.count > last.average.n

====
